---- MODULE Spec2Model ----
(***************************************************************************)
(* Model of the user-managing service (src/src/main.py): the three         *)
(* Supabase helpers wrapped by tenacity's retry around pybreaker's circuit *)
(* breaker, the three endpoints that classify their outcome, and the       *)
(* health endpoints over the cpu, disk and database probes.                *)
(***************************************************************************)
EXTENDS Integers, Sequences, FiniteSets

\* ------------------------------------------------------------------ bounds
NumReqs == 2
MaxFailCounter == 5

\* ------------------------------------------------- configuration (main.py)
fail_max == 3
reset_timeout == 30
stop_max_attempt == 3
wait_multiplier == 1
wait_min == 2
wait_max == 6
exp_base == 2
MAX_CPU_USAGE == 85
threshold == 90

Reqs == 1..NumReqs
NoReq == 0
Operations == {"fetch", "update", "insert"}
\* what requests.post can do: a 200 answer with a record, a 200 answer with
\* no record, an answer with another status, a transport error
RemoteResults == {"user", "empty", "non200", "transport"}
NoResponse == [status |-> 0, detail |-> "none"]

VARIABLES
  state,        \* breaker.current_state
  fail_counter, \* breaker.fail_counter
  since_opened, \* seconds from the breaker's opened_at to now, counted up to
                \* reset_timeout while the breaker is open, 0 otherwise
  running,      \* the request the event loop is executing, NoReq if none
  pc,           \* per request: idle, pending, call, invoking, sleeping, done
  op,           \* per request: the helper its endpoint calls
  valid,        \* per request: whether the id matches the UUID pattern
  attempt,      \* per request: tenacity's attempt_number
  invoked,      \* per request: number of requests.post calls made
  slept,        \* per request: the delays slept between attempts
  raised,       \* per request: how the wrapped helper ended
  response,     \* per request: what the endpoint answers
  held,         \* per request: arrival during a half-open trial
  answer,       \* per request: what its last requests.post did
  tripper,      \* the helper whose failure opened the breaker, while it is open
  consecFails,  \* failed requests.post calls since the last successful one
  cpu_usage,    \* psutil.cpu_percent, or -1 when psutil raises
  disk_percent, \* psutil.disk_usage('/').percent, or -1 when psutil raises
  health        \* the last health endpoint called, what the database
                \* request did, and the endpoint's response

breakerVars == <<state, fail_counter, since_opened, tripper>>
reqVars == <<running, pc, op, valid, attempt, invoked, slept, raised, response,
             held, answer>>
healthVars == <<cpu_usage, disk_percent, health>>
vars == <<state, fail_counter, since_opened, running, pc, op, valid, attempt,
          invoked, slept, raised, response, held, answer, tripper, consecFails,
          cpu_usage, disk_percent, health>>

Max(a, b) == IF a >= b THEN a ELSE b
Min(a, b) == IF a <= b THEN a ELSE b

RECURSIVE Pow(_, _)
Pow(b, e) == IF e = 0 THEN 1 ELSE b * Pow(b, e - 1)

\* ------------------------------------------------------------- tenacity
\* wait_exponential(multiplier=1, min=2, max=6): the wait after attempt n
wait_exponential(n) ==
  Max(Max(0, wait_min), Min(wait_multiplier * Pow(exp_base, n - 1), wait_max))

\* retry_if_exception_type(requests.exceptions.RequestException)
retry_if_exception_type(exc) == exc = "RequestException"

\* stop_after_attempt(3)
stop_after_attempt(n) == n >= stop_max_attempt

\* ------------------------------------------------------------ pybreaker
\* no exception is excluded: every exception the helper raises counts
is_system_error(exc) == TRUE

\* faulty variant: the breaker trips one failure late
TripsLate(counter) == counter > fail_max

\* CircuitClosedState.on_failure: the breaker trips when the counter reaches fail_max
Trips(counter) == counter >= fail_max

\* faulty variant: the gate compares the wrong way and never lets a trial through
StillOpenAlways(elapsed) == TRUE

\* faulty variant: the gate never refuses a call
StillOpenNever(elapsed) == FALSE

\* CircuitOpenState.before_call: the call is refused while the timeout runs
StillOpen(elapsed) == elapsed < reset_timeout

\* the breaker's state as the helper's body runs: an open breaker whose
\* timeout has elapsed turns half-open, the others stay
Gate(st) == IF st = "open" THEN "half_open" ELSE st

\* _handle_error for exception exc raised by the helper in state st
HandleError(st, counter, exc) ==
  IF is_system_error(exc)
  THEN LET c == counter + 1 IN
       IF st = "half_open" \/ Trips(c)
       THEN [state |-> "open", counter |-> c, opens |-> TRUE,
             raises |-> "CircuitBreakerError"]
       ELSE [state |-> st, counter |-> c, opens |-> FALSE, raises |-> exc]
  ELSE [state |-> "closed", counter |-> 0, opens |-> FALSE, raises |-> exc]

\* faulty variant: a success closes the breaker and keeps the counter
HandleSuccessKeepsCounter(st, counter) == [state |-> "closed", counter |-> counter]

\* _handle_success: the counter is reset and a half-open breaker closes
HandleSuccess(st, counter) == [state |-> "closed", counter |-> 0]

\* faulty variant: only fetch_user_from_supabase carries the decorator
GuardedFetchOnly(o) == o = "fetch"

\* the helpers that carry the @breaker decorator: all three, on one breaker
Guarded(o) == o \in {"fetch", "update", "insert"}

\* the gate as helper o's call meets it
Refused(o, st, elapsed) == Guarded(o) /\ st = "open" /\ StillOpen(elapsed)

\* the breaker's state while helper o's body runs
EnterState(o, st) == IF Guarded(o) THEN Gate(st) ELSE st

\* what the breaker makes of helper o raising exc
OnError(o, st, counter, exc) ==
  IF Guarded(o)
  THEN HandleError(st, counter, exc)
  ELSE [state |-> st, counter |-> counter, opens |-> FALSE, raises |-> exc]

\* what the breaker makes of helper o returning
OnSuccess(o, st, counter) ==
  IF Guarded(o) THEN HandleSuccess(st, counter) ELSE [state |-> st, counter |-> counter]

\* --------------------------------------------------------- the endpoints
\* faulty variant: the except clause for CircuitBreakerError is missing, and the
\* catch-all answers it
EndpointNoBreakerClause(o, res, data) ==
  IF res = "RetryError"
  THEN [status |-> 503, detail |-> "after multiple retry attempts"]
  ELSE IF res = "CircuitBreakerError"
  THEN [status |-> 400, detail |-> "Timeout not elapsed yet, circuit breaker still open"]
  ELSE IF res \in {"HTTPException", "RequestException"}
  THEN [status |-> 400, detail |-> "400: Invalid UUID format"]
  ELSE IF o \in {"fetch", "insert"} /\ data = "empty"
  THEN [status |-> 400, detail |-> "404: No user found"]
  ELSE [status |-> 200, detail |-> "payload"]

\* get_user / edit_user / create_user: the try block and its except clauses
Endpoint(o, res, data) ==
  IF res = "RetryError"
  THEN [status |-> 503, detail |-> "after multiple retry attempts"]
  ELSE IF res = "CircuitBreakerError"
  THEN [status |-> 503, detail |-> "due to repeated failures"]
  ELSE IF res = "HTTPException"
  THEN [status |-> 400, detail |-> "400: Invalid UUID format"]
  ELSE IF res = "RequestException"
  THEN [status |-> 400, detail |-> "Failed to reach Supabase"]
  ELSE IF o = "fetch" /\ data = "empty"
  THEN [status |-> 400, detail |-> "404: No user found"]
  ELSE IF o = "insert" /\ data = "empty"
  THEN [status |-> 400, detail |-> "list index out of range"]
  ELSE [status |-> 200, detail |-> "payload"]

\* ------------------------------------------------------------ the probes
\* utilisation samples psutil can give; PsutilRaises stands for psutil raising
PsutilRaises == -1
CpuSamples == {PsutilRaises, 50, 85, 86, 90}
DiskSamples == {PsutilRaises, 70, 89, 90, 95}
\* what requests.get on the metrics URL can do
DbResults == {"200", "non200", "raise"}

HealthComponent(st, text, value) ==
  [status |-> st, details |-> [text |-> text, value |-> value]]

HealthResponse(st, comps) == [status |-> st, components |-> comps]

\* check_cpu_health (cpuhealth.py)
check_cpu_health(usage) ==
  IF usage = PsutilRaises
  THEN HealthComponent("DOWN", "Failed to check CPU health", 0)
  ELSE IF usage > MAX_CPU_USAGE
  THEN HealthComponent("DOWN", "High CPU usage detected", usage)
  ELSE HealthComponent("UP", "CPU usage at", usage)

\* check_disk_health (diskhealth.py)
check_disk_health(percent) ==
  IF percent = PsutilRaises
  THEN HealthComponent("DOWN", "Failed to check disk health", 0)
  ELSE IF percent >= threshold
  THEN HealthComponent("DOWN", "Disk usage is critical", percent)
  ELSE HealthComponent("UP", "Disk usage is healthy", percent)

\* the status readiness_check gives its HealthResponse when no probe raised
ReadinessStatus(cpu, disk, database) == "UP"

\* readiness_check: the try block and its except clause
readiness_check(usage, percent, db) ==
  IF db = "raise"
  THEN HealthResponse("DOWN",
         [error |-> HealthComponent("DOWN", "ConnectionError", 0)])
  ELSE LET cpu_health == check_cpu_health(usage)
           disk_health == check_disk_health(percent)
           database_health ==
             IF db # "200"
             THEN HealthComponent("DOWN", "Supabase service is unavailable.", 0)
             ELSE HealthComponent("UP", "Supabase service is operational.", 0)
       IN HealthResponse(ReadinessStatus(cpu_health, disk_health, database_health),
            [cpu |-> cpu_health, database |-> database_health, disk |-> disk_health])

\* cpu_health_check
cpu_health_check(usage) ==
  LET cpu_health == check_cpu_health(usage)
  IN HealthResponse(cpu_health.status, [cpu |-> cpu_health])

\* disk_health_check
disk_health_check(percent) ==
  LET disk_health == check_disk_health(percent)
  IN HealthResponse(disk_health.status, [disk |-> disk_health])

\* supabase_health_check: "ok", or HTTPException(503)
supabase_health_check(db) ==
  IF db = "200" THEN HealthResponse("ok", <<>>) ELSE HealthResponse("503", <<>>)

Init ==
  /\ state = "closed"
  /\ fail_counter = 0
  /\ since_opened = 0
  /\ running = NoReq
  /\ pc = [r \in Reqs |-> "idle"]
  /\ op = [r \in Reqs |-> "fetch"]
  /\ valid = [r \in Reqs |-> TRUE]
  /\ attempt = [r \in Reqs |-> 0]
  /\ invoked = [r \in Reqs |-> 0]
  /\ slept = [r \in Reqs |-> <<>>]
  /\ raised = [r \in Reqs |-> "none"]
  /\ response = [r \in Reqs |-> NoResponse]
  /\ held = [r \in Reqs |-> "no"]
  /\ answer = [r \in Reqs |-> "none"]
  /\ tripper = "none"
  /\ consecFails = 0
  /\ cpu_usage = 50
  /\ disk_percent = 70
  /\ health = [endpoint |-> "none", db |-> "200",
               response |-> HealthResponse("none", <<>>)]

\* an endpoint's answer is written out before the event loop takes its next event
Quiet == \A q \in Reqs : pc[q] # "done"

\* a request reaches the server: it waits for the event loop
Arrive(r) ==
  /\ pc[r] = "idle"
  /\ Quiet
  /\ pc' = [pc EXCEPT ![r] = "pending"]
  /\ held' = [held EXCEPT ![r] = IF state = "half_open" THEN "current" ELSE "no"]
  /\ UNCHANGED <<breakerVars, running, op, valid, attempt, invoked, slept,
                 raised, response, answer, consecFails, healthVars>>

\* faulty variant: the helper runs off the event loop, so calls overlap
LoopAlwaysFree == TRUE

\* the event loop runs one coroutine at a time, and the endpoints never await
LoopFree == running = NoReq

\* the event loop starts the endpoint's coroutine with the request's route
\* and id: tenacity's first attempt
Start(r) ==
  /\ pc[r] = "pending"
  /\ LoopFree
  /\ Quiet
  /\ \E o \in Operations, v \in BOOLEAN :
       /\ v \/ fail_counter < MaxFailCounter
       /\ op' = [op EXCEPT ![r] = o]
       /\ valid' = [valid EXCEPT ![r] = v]
  /\ running' = r
  /\ pc' = [pc EXCEPT ![r] = "call"]
  /\ attempt' = [attempt EXCEPT ![r] = 1]
  /\ UNCHANGED <<breakerVars, invoked, slept, raised, response, held, answer,
                 consecFails, healthVars>>

\* the helper's call ends with exception res (or "return" with data): the
\* endpoint answers and the event loop is free again
Finish(r, res, data) ==
  /\ pc' = [pc EXCEPT ![r] = "done"]
  /\ raised' = [raised EXCEPT ![r] = res]
  /\ response' = [response EXCEPT ![r] = Endpoint(op[r], res, data)]
  /\ running' = IF running = r THEN NoReq ELSE running

\* faulty variant: a bare @retry, which retries every exception without end
AfterRaiseForever(r, exc) ==
  /\ pc' = [pc EXCEPT ![r] = "sleeping"]
  /\ slept' = [slept EXCEPT ![r] = Append(@, wait_exponential(attempt[r]))]
  /\ UNCHANGED <<raised, response, running>>

\* tenacity after an attempt that raised exc
AfterRaise(r, exc) ==
  IF retry_if_exception_type(exc) /\ ~stop_after_attempt(attempt[r])
  THEN /\ pc' = [pc EXCEPT ![r] = "sleeping"]
       /\ slept' = [slept EXCEPT ![r] = Append(@, wait_exponential(attempt[r]))]
       /\ UNCHANGED <<raised, response, running>>
  ELSE /\ Finish(r, IF retry_if_exception_type(exc) THEN "RetryError" ELSE exc, "none")
       /\ UNCHANGED slept

\* the breaker's clock and tripper after a step that leaves it in state st
Reopened(h, o) ==
  /\ since_opened' = IF h.opens \/ h.state # "open" THEN 0 ELSE since_opened
  /\ tripper' = IF h.opens THEN o
                ELSE IF h.state # "open" THEN "none" ELSE tripper

\* one attempt enters the breaker: the gate, then the helper's UUID check
BreakerCall(r) ==
  /\ pc[r] = "call"
  /\ IF Refused(op[r], state, since_opened)
     THEN \* CircuitBreakerError: timeout not elapsed yet
          /\ Finish(r, "CircuitBreakerError", "none")
          /\ UNCHANGED <<breakerVars, slept>>
     ELSE IF ~valid[r]
     THEN \* the helper raises HTTPException(400) inside the breaker
          LET h == OnError(op[r], EnterState(op[r], state), fail_counter,
                           "HTTPException") IN
          /\ state' = h.state
          /\ fail_counter' = h.counter
          /\ Reopened(h, op[r])
          /\ AfterRaise(r, h.raises)
     ELSE \* requests.post is sent
          LET h == [state |-> EnterState(op[r], state), opens |-> FALSE] IN
          /\ state' = h.state
          /\ Reopened(h, op[r])
          /\ pc' = [pc EXCEPT ![r] = "invoking"]
          /\ UNCHANGED <<fail_counter, slept, raised, response, running>>
  /\ UNCHANGED <<op, valid, attempt, invoked, held, answer, consecFails, healthVars>>

\* a trial that ends: the requests that arrived during it are no longer held by it
Release(st) ==
  held' = [q \in Reqs |-> IF st = "half_open" /\ held[q] = "current"
                          THEN "past" ELSE held[q]]

\* requests.post comes back
RemoteResponse(r) ==
  /\ pc[r] = "invoking"
  /\ invoked' = [invoked EXCEPT ![r] = @ + 1]
  /\ \E res \in RemoteResults :
       /\ answer' = [answer EXCEPT ![r] = res]
       /\ IF res \in {"user", "empty"}
          THEN LET h == OnSuccess(op[r], state, fail_counter) IN
               /\ state' = h.state
               /\ fail_counter' = h.counter
               /\ Reopened([state |-> h.state, opens |-> FALSE], op[r])
               /\ consecFails' = 0
               /\ Finish(r, "return", res)
               /\ UNCHANGED slept
          ELSE LET h == OnError(op[r], state, fail_counter, "RequestException") IN
               /\ fail_counter < MaxFailCounter
               /\ state' = h.state
               /\ fail_counter' = h.counter
               /\ Reopened(h, op[r])
               /\ consecFails' = consecFails + 1
               /\ AfterRaise(r, h.raises)
  /\ Release(state)
  /\ UNCHANGED <<op, valid, attempt, healthVars>>

\* time.sleep returns: tenacity's next attempt
Wake(r) ==
  /\ pc[r] = "sleeping"
  /\ since_opened' = IF state = "open"
                     THEN Min(since_opened + slept[r][Len(slept[r])], reset_timeout)
                     ELSE since_opened
  /\ attempt' = [attempt EXCEPT ![r] = @ + 1]
  /\ pc' = [pc EXCEPT ![r] = "call"]
  /\ UNCHANGED <<state, fail_counter, tripper, running, op, valid, invoked,
                 slept, raised, response, held, answer, consecFails, healthVars>>

\* the response is sent and the request's slot is free for the next one
Retire(r) ==
  /\ pc[r] = "done"
  /\ pc' = [pc EXCEPT ![r] = "idle"]
  /\ attempt' = [attempt EXCEPT ![r] = 0]
  /\ invoked' = [invoked EXCEPT ![r] = 0]
  /\ slept' = [slept EXCEPT ![r] = <<>>]
  /\ raised' = [raised EXCEPT ![r] = "none"]
  /\ response' = [response EXCEPT ![r] = NoResponse]
  /\ held' = [held EXCEPT ![r] = "no"]
  /\ answer' = [answer EXCEPT ![r] = "none"]
  /\ op' = [op EXCEPT ![r] = "fetch"]
  /\ valid' = [valid EXCEPT ![r] = TRUE]
  /\ UNCHANGED <<breakerVars, running, consecFails, healthVars>>

\* a second passes while the breaker is open
Tick ==
  /\ state = "open"
  /\ Quiet
  /\ since_opened < reset_timeout
  /\ since_opened' = since_opened + 1
  /\ UNCHANGED <<state, fail_counter, tripper, reqVars, consecFails, healthVars>>

Next ==
  \/ \E r \in Reqs : Arrive(r)
  \/ \E r \in Reqs : Start(r)
  \/ \E r \in Reqs : BreakerCall(r)
  \/ \E r \in Reqs : RemoteResponse(r)
  \/ \E r \in Reqs : Wake(r)
  \/ \E r \in Reqs : Retire(r)
  \/ Tick

Spec == Init /\ [][Next]_vars

\* a step of some request: its arrival, its start, an attempt, a wake-up, its answer
Serve ==
  \E r \in Reqs :
    \/ Arrive(r)
    \/ Start(r)
    \/ BreakerCall(r)
    \/ RemoteResponse(r)
    \/ Wake(r)
    \/ Retire(r)

\* the same system when time keeps advancing and the server keeps serving:
\* requests keep arriving and the step under way is eventually taken; the
\* remote fails at most MaxFailCounter times in a row, so it succeeds from
\* some point on
LiveSpec == Init /\ [][Next]_vars /\ SF_vars(Tick) /\ WF_vars(Serve)

\* ------------------------------------------------- the health endpoints
\* the host's load changes
Sample ==
  /\ cpu_usage' \in CpuSamples
  /\ disk_percent' \in DiskSamples
  /\ UNCHANGED <<breakerVars, reqVars, consecFails, health>>

Answer(name, db, resp) ==
  /\ health' = [endpoint |-> name, db |-> db, response |-> resp]
  /\ UNCHANGED <<breakerVars, reqVars, consecFails, cpu_usage, disk_percent>>

GetHealthCpu == Answer("cpu", "200", cpu_health_check(cpu_usage))

GetHealthDisk == Answer("disk", "200", disk_health_check(disk_percent))

GetHealthDatabase ==
  \E db \in DbResults : Answer("database", db, supabase_health_check(db))

GetHealthReadiness ==
  \E db \in DbResults :
    Answer("readiness", db, readiness_check(cpu_usage, disk_percent, db))

HealthNext ==
  \/ Sample
  \/ GetHealthCpu
  \/ GetHealthDisk
  \/ GetHealthDatabase
  \/ GetHealthReadiness

HealthSpec == Init /\ [][HealthNext]_vars

\* ================================================================ claims

\* C1: a call whose id fails the UUID check ends as a validation failure
\* (HTTPException, 400) without a remote request, and leaves the breaker's
\* state and failure counter as they were before the call.
C1_ValidationLeavesBreaker ==
  [][\A r \in Reqs :
       (pc[r] = "call" /\ ~valid[r] /\ pc'[r] # "call")
         => /\ pc'[r] = "done"
            /\ raised'[r] = "HTTPException"
            /\ response'[r].status = 400
            /\ invoked'[r] = 0
            /\ state' = state
            /\ fail_counter' = fail_counter]_vars

\* C2: the remote failure that makes fail_max consecutive ones leaves the
\* breaker open, and an attempt made while the breaker is open and less than
\* reset_timeout seconds have passed ends the call with CircuitBreakerError
\* (503) without a remote request.
C2_OpensAndRejects ==
  /\ [][(consecFails' # consecFails /\ consecFails' >= fail_max)
          => state' = "open" /\ since_opened' = 0]_vars
  /\ [][\A r \in Reqs :
          (pc[r] = "call" /\ pc'[r] # "call" /\ state = "open"
             /\ since_opened < reset_timeout)
            => /\ pc'[r] = "done"
               /\ raised'[r] = "CircuitBreakerError"
               /\ response'[r].status = 503
               /\ invoked'[r] = invoked[r]
               /\ state' = "open"]_vars

\* C2 witness: fail_max remote failures in a row opened the breaker and a
\* call made before the timeout was refused without a remote request.
C2_Witness ==
  /\ state = "open"
  /\ consecFails >= fail_max
  /\ since_opened > 0
  /\ since_opened < reset_timeout
  /\ \E r \in Reqs : /\ pc[r] = "done"
                     /\ raised[r] = "CircuitBreakerError"
                     /\ invoked[r] = 0

\* C3: a call with a valid id whose every remote request fails makes exactly
\* stop_max_attempt remote requests and ends with RetryError, answered 503
\* "after multiple retry attempts".
C3_RetriesExhausted ==
  \A r \in Reqs :
    (pc[r] = "done" /\ valid[r] /\ invoked[r] >= 1 /\ raised[r] # "return")
      => /\ invoked[r] = stop_max_attempt
         /\ raised[r] = "RetryError"
         /\ response[r] = [status |-> 503, detail |-> "after multiple retry attempts"]

\* C4: the call let through while the breaker is half-open decides the next
\* state: its success resets the counter to zero and closes the breaker, its
\* failure opens the breaker again with the timeout counted from that failure.
C4_TrialDecides ==
  /\ [][\A r \in Reqs :
          (state = "half_open" /\ pc[r] = "invoking" /\ pc'[r] # "invoking")
            => IF raised'[r] = "return"
               THEN fail_counter' = 0 /\ state' = "closed"
               ELSE /\ state' = "open"
                    /\ since_opened' = 0
                    /\ raised'[r] = "CircuitBreakerError"]_vars
  /\ [][\A r \in Reqs :
          (state = "open" /\ since_opened >= reset_timeout /\ pc[r] = "call"
             /\ pc'[r] = "done")
            => /\ state' = "open"
               /\ since_opened' = 0
               /\ raised'[r] = "CircuitBreakerError"]_vars

\* C4 witness: a trial request was sent and failed, and the breaker is open
\* again with its timeout restarted.
C4_Witness ==
  /\ state = "open"
  /\ since_opened = 0
  /\ fail_counter > fail_max
  /\ \E r \in Reqs : /\ pc[r] = "done"
                     /\ invoked[r] = 1
                     /\ raised[r] = "CircuitBreakerError"

ClaimedDelay(k) == Min(wait_min * Pow(exp_base, k - 1), wait_max)

\* C6: the delay slept between attempt k and attempt k+1 of one call is
\* min(baseDelay * multiplier^(k-1), maxDelay), the "2s, 4s, 6s" of the code.
C6_BackoffDelays ==
  \A r \in Reqs :
    \A k \in 1..Len(slept[r]) : slept[r][k] = ClaimedDelay(k)

\* C7: a call with an invalid id is answered 400 as a validation failure in
\* every breaker state, never with CircuitBreakerError.
C7_ValidationBeforeGate ==
  \A r \in Reqs :
    (pc[r] = "done" /\ ~valid[r])
      => raised[r] = "HTTPException" /\ response[r].status = 400

\* C8: the readiness response's overall status is DOWN if any of its
\* components is DOWN, and UP otherwise.
C8_OverallStatus ==
  health.endpoint = "readiness"
    => LET comps == health.response.components IN
       health.response.status =
         IF \E c \in DOMAIN comps : comps[c].status = "DOWN" THEN "DOWN" ELSE "UP"

\* C9: when the database request of the readiness check raises, the response
\* holds a DOWN component named database, and the cpu and disk components.
C9_RaisingProbe ==
  (health.endpoint = "readiness" /\ health.db = "raise")
    => LET comps == health.response.components IN
       /\ {"cpu", "disk", "database"} \subseteq DOMAIN comps
       /\ comps["database"].status = "DOWN"

\* C10: every call the endpoint finishes is answered with one of the five
\* outcomes, by how the helper ended: a payload (200), a 400 for a validation
\* or upstream failure, 503 "after multiple retry attempts" for RetryError,
\* 503 "due to repeated failures" for CircuitBreakerError.
C10_FiveOutcomes ==
  \A r \in Reqs :
    pc[r] = "done"
      => /\ raised[r] \in {"return", "HTTPException", "RequestException",
                           "RetryError", "CircuitBreakerError"}
         /\ response[r].status \in {200, 400, 503}
         /\ raised[r] = "return" => response[r].status \in {200, 400}
         /\ raised[r] \in {"HTTPException", "RequestException"}
              => response[r].status = 400
         /\ raised[r] = "RetryError"
              => response[r] = [status |-> 503,
                                detail |-> "after multiple retry attempts"]
         /\ raised[r] = "CircuitBreakerError"
              => response[r] = [status |-> 503,
                                detail |-> "due to repeated failures"]

\* C10 witness: calls ended in CircuitBreakerError, and in a payload.
C10_Witness ==
  \E r \in Reqs :
    /\ pc[r] = "done"
    /\ raised[r] = "CircuitBreakerError"
    /\ response[r].status = 503

\* C11: a request that the remote answers with a non-success status ends the
\* call after that single request as an upstream failure (400): it is not
\* retried.
C11_RemoteErrorNotRetried ==
  \A r \in Reqs :
    answer[r] = "non200"
      => /\ pc[r] = "done"
         /\ invoked[r] = 1
         /\ response[r].status = 400

\* C12: while one request is in its backoff sleep, another request that has
\* arrived can be started.
C12_SleepDoesNotBlock ==
  \A r, q \in Reqs :
    (r # q /\ pc[r] = "sleeping" /\ pc[q] = "pending") => ENABLED Start(q)

\* C13: an attempt that fails with attempts remaining only sleeps: the step
\* into the backoff sleep leaves the breaker's failure counter unchanged.
C13_OneFailurePerCall ==
  [][\A r \in Reqs :
       (pc[r] # "sleeping" /\ pc'[r] = "sleeping")
         => fail_counter' = fail_counter]_vars

\* C14: no attempt, first or later, sends its remote request while the
\* breaker is open and less than reset_timeout seconds have passed.
C14_NoRequestWhileOpen ==
  [][\A r \in Reqs :
       (pc[r] # "invoking" /\ pc'[r] = "invoking")
         => /\ ~(state = "open" /\ since_opened < reset_timeout)
            /\ state' # "open"]_vars

\* C14 witness: a second or third attempt's remote request is in flight.
C14_Witness ==
  \E r \in Reqs : pc[r] = "invoking" /\ attempt[r] >= 2 /\ state # "open"

\* C15: the breaker is open (or on trial) only after at least fail_max
\* failed remote requests since the last successful one.
C15_FewFailuresNeverOpen ==
  state # "closed" => consecFails >= fail_max

\* C16: get_user answers 404 when the remote returns no matching user.
C16_NotFound ==
  \A r \in Reqs :
    (pc[r] = "done" /\ op[r] = "fetch" /\ raised[r] = "return"
       /\ answer[r] = "empty")
      => response[r].status = 404

\* C17: a call makes at most stop_max_attempt remote requests and at most
\* stop_max_attempt - 1 backoff sleeps, a call under way always has its next
\* step enabled, and a finished call has an outcome.
C17_BoundedCall ==
  \A r \in Reqs :
    /\ invoked[r] <= stop_max_attempt
    /\ attempt[r] <= stop_max_attempt
    /\ Len(slept[r]) <= stop_max_attempt - 1
    /\ pc[r] \in {"call", "invoking", "sleeping"}
         => ENABLED (BreakerCall(r) \/ RemoteResponse(r) \/ Wake(r))
    /\ pc[r] = "done" => raised[r] # "none" /\ response[r] # NoResponse

\* C17 witness: a finished call that made three requests and slept twice.
C17_Witness ==
  \E r \in Reqs :
    /\ pc[r] = "done"
    /\ invoked[r] = stop_max_attempt
    /\ Len(slept[r]) = stop_max_attempt - 1

\* C18: no call ends with RetryError, and no answer is the 503 "after
\* multiple retry attempts".
C18_RetryErrorUnreachable ==
  \A r \in Reqs :
    /\ raised[r] # "RetryError"
    /\ response[r].detail # "after multiple retry attempts"

\* C18 witness: a call whose third attempt failed ended with
\* CircuitBreakerError, answered 503 "due to repeated failures".
C18_Witness ==
  \E r \in Reqs :
    /\ pc[r] = "done"
    /\ attempt[r] = stop_max_attempt
    /\ answer[r] \in {"non200", "transport"}
    /\ raised[r] = "CircuitBreakerError"
    /\ response[r].detail = "due to repeated failures"

\* C19: the three helpers share the one breaker: a failed remote request of
\* any helper adds one to the counter, a successful one of any helper resets
\* it and closes the breaker, and while the breaker is open with the timeout
\* running a call of any helper is refused without a remote request.
C19_SharedBreaker ==
  /\ [][\A r \in Reqs :
          (pc[r] = "invoking" /\ pc'[r] # "invoking"
             /\ answer'[r] \in {"non200", "transport"})
            => fail_counter' = fail_counter + 1]_vars
  /\ [][\A r \in Reqs :
          (pc[r] = "invoking" /\ pc'[r] # "invoking"
             /\ answer'[r] \in {"user", "empty"})
            => fail_counter' = 0 /\ state' = "closed"]_vars
  /\ [][\A r \in Reqs :
          (pc[r] = "call" /\ pc'[r] # "call" /\ state = "open"
             /\ since_opened < reset_timeout)
            => /\ raised'[r] = "CircuitBreakerError"
               /\ invoked'[r] = invoked[r]
               /\ fail_counter' = fail_counter]_vars

\* C19 witness: a failure of the fetch helper opened the breaker and a call
\* of the insert helper was refused without a remote request.
C19_Witness ==
  /\ state = "open"
  /\ tripper = "fetch"
  /\ \E r \in Reqs : /\ pc[r] = "done"
                     /\ op[r] = "insert"
                     /\ raised[r] = "CircuitBreakerError"
                     /\ invoked[r] = 0

\* C20: the breaker does not stay open for ever: when time keeps advancing,
\* calls keep arriving and the remote succeeds from some point on, an open
\* breaker is eventually closed with the failure counter at zero.
C20_Recovers == (state = "open") ~> (state = "closed" /\ fail_counter = 0)

\* C20 witness: a half-open trial that a waiting request saw has ended and
\* the breaker is closed again with the counter at zero.
C20_Witness ==
  /\ state = "closed"
  /\ fail_counter = 0
  /\ \E q \in Reqs : held[q] = "past"
  /\ \E r \in Reqs : pc[r] = "done" /\ raised[r] = "return" /\ invoked[r] = 1
====
